---- MODULE Spec2Model ----
(***************************************************************************)
(* Model of realm/column.cpp: the bulk B+-tree builder ColumnBase::build   *)
(* and the root growth operation ColumnBaseSimple::introduce_new_root      *)
(* (with replace_root_array), over an explicit node store.                 *)
(*                                                                         *)
(* A ref is an even positive integer; 0 is "no node".  A slot of an inner  *)
(* node is either a ref (even) or an inline value 1 + 2*v (odd).           *)
(* Exceptions are modelled by the flag exc; every step the source marks    *)
(* "Throws" may either succeed or raise.                                   *)
(***************************************************************************)
EXTENDS Integers, Sequences, FiniteSets, TLC

\* ---------------------------------------------------------------- bounds
MaxFanout == 4
MaxN == 9
MaxFixedHeight == 3
MaxGrow == 2
MaxSplit == 2

VARIABLES
    F,            \* REALM_MAX_BPNODE_SIZE of this build of the library
    heap,         \* the allocator: live ref -> node
    double_destroy, \* TRUE once a ref that is not live has been destroyed
    phase,        \* "idle", "build", "returned", "threw", "inr", "inr_done",
                  \* "inr_threw", "aborted"
    stack,        \* activation records of the nested build() calls, top last
    exc,          \* an exception is propagating
    arg_n,        \* *rest_size_ptr on entry of the outermost build()
    arg_fh,       \* fixed_height of the outermost build()
    rest_out,     \* *rest_size_ptr of the outermost build()
    result,       \* ref returned by the outermost build(), not yet owned by a column
    leaf_log,     \* refs returned by handler.create_leaf, in call order
    heap_before,  \* the allocator as it was when the current call started
    fail_pc,      \* the step that raised, "" if none
    fail_depth,   \* recursion depth at which it raised
    m_array,      \* ref of the node the column's root accessor is attached to
    parent_slot,  \* the slot of the column's root in its parent
    ipc,          \* position inside introduce_new_root
    inr,          \* locals and arguments of introduce_new_root
    grows         \* number of introduce_new_root calls made

vars == <<F, heap, double_destroy, phase, stack, exc, arg_n, arg_fh,
          rest_out, result, leaf_log, heap_before, fail_pc, fail_depth,
          m_array, parent_slot, ipc, inr, grows>>

colVars == <<m_array, parent_slot>>
inrVars == <<ipc, inr, grows>>

\* ------------------------------------------------------------ slot codec
Min(a, b) == IF a < b THEN a ELSE b

RECURSIVE Pow(_, _)
Pow(b, e) == IF e = 0 THEN 1 ELSE b * Pow(b, e - 1)

\* 1 + 2 * v, the inline (tagged) encoding of a count
Inline(v) == 1 + 2 * v

\* from_ref: a ref is stored in a slot as its own (even) value
from_ref(r) == r

IsInlineSlot(s) == s % 2 # 0
IsRefSlot(s) == s % 2 = 0

\* ------------------------------------------------------------ node store
LeafNode(sz) == [type |-> "leaf", size |-> sz, slots |-> <<>>]
InnerNode == [type |-> "inner", size |-> 0, slots |-> <<>>]
NormalNode == [type |-> "normal", size |-> 0, slots |-> <<>>]

\* The ref the allocator hands out next: the lowest free one
FreshRef(h) ==
    2 * (CHOOSE k \in 1..(Cardinality(DOMAIN h) + 1) :
            /\ 2 * k \notin DOMAIN h
            /\ \A j \in 1..(k - 1) : 2 * j \in DOMAIN h)

\* Array::create / handler.create_leaf: a fresh node at ref r
Alloc(h, r, node) == (r :> node) @@ h

\* Array::add: append one slot
Add(h, r, v) == [h EXCEPT ![r].slots = Append(@, v)]

\* The refs freed by Array::destroy_deep(r): the children first (every slot
\* of a node with refs that is even and not zero), then the node itself.
RECURSIVE DeepRefs(_, _)
RECURSIVE DeepRefsOfSlots(_, _, _)
DeepRefsOfSlots(h, slots, i) ==
    IF i > Len(slots) THEN <<>>
    ELSE (IF IsRefSlot(slots[i]) /\ slots[i] # 0 THEN DeepRefs(h, slots[i]) ELSE <<>>)
         \o DeepRefsOfSlots(h, slots, i + 1)
DeepRefs(h, r) ==
    IF r \notin DOMAIN h THEN <<r>>
    ELSE IF h[r].type = "inner" THEN DeepRefsOfSlots(h, h[r].slots, 1) \o <<r>>
    ELSE <<r>>

SeqRange(s) == {s[i] : i \in 1..Len(s)}

\* Array::destroy_deep on a store st = [heap, bad]; bad records the
\* destruction of a ref that is not live (or is freed twice in one sweep).
DestroyDeep(st, r) ==
    LET refs == DeepRefs(st.heap, r)
        dead == SeqRange(refs)
    IN [heap |-> [x \in (DOMAIN st.heap) \ dead |-> st.heap[x]],
        bad |-> st.bad \/ (\E x \in dead : x \notin DOMAIN st.heap)
                       \/ Cardinality(dead) # Len(refs)]

\* ------------------------------------------------------ ColumnBase::build
\* leaf_size = std::min(elems_per_child, rest_size)
LeafSize(elems_per_child, rest_size) == Min(elems_per_child, rest_size)

\* Entry of build(): everything up to the call of handler.create_leaf
BuildFrame(rest, fh) ==
    [rest_size |-> rest - LeafSize(F, rest),
     orig_rest_size |-> rest,
     elems_per_child |-> F,
     leaf_size |-> LeafSize(F, rest),
     fixed_height |-> fh,
     node |-> 0,
     height |-> 0,
     new_inner_node |-> 0,
     num_children |-> 0,
     child |-> 0,
     pc |-> "create_leaf"]

Top == stack[Len(stack)]
SetTop(f) == [stack EXCEPT ![Len(stack)] = f]
Pop == SubSeq(stack, 1, Len(stack) - 1)

\* variant: returns as soon as nothing remains, whatever fixed_height is
ReturnCondEither(fixed_height, height, rest_size) ==
    (fixed_height > 0 /\ fixed_height = height) \/ rest_size = 0

\* if (fixed_height > 0 ? fixed_height == height : rest_size == 0)
ReturnCond(fixed_height, height, rest_size) ==
    IF fixed_height > 0 THEN fixed_height = height ELSE rest_size = 0

\* variant: no cap on the number of children
WhileCondNoCap(rest_size, num_children) == rest_size > 0

\* while (rest_size > 0 && num_children != REALM_MAX_BPNODE_SIZE)
WhileCond(rest_size, num_children) == rest_size > 0 /\ num_children # F

\* variant: node keeps its value
KeptNode(node) == node

\* node = 0, once the node is owned by new_inner_node
ClearedNode(node) == 0

\* variant: elems_per_child is not scaled for the next level
NextElemsPerChildSame(elems_per_child) == elems_per_child

\* elems_per_child *= REALM_MAX_BPNODE_SIZE
NextElemsPerChild(elems_per_child) == elems_per_child * F

\* variant: the remaining count is recorded instead of the consumed one
TotalElemsRest(orig_rest_size, rest_size) == rest_size

\* v = orig_rest_size - rest_size; // total_elems_in_tree
TotalElems(orig_rest_size, rest_size) == orig_rest_size - rest_size

\* The outermost call: build(&n, fixed_height, alloc, handler)
BuildCall ==
    /\ phase = "idle" /\ m_array = 0
    /\ \E n \in 1..MaxN, fh \in 0..MaxFixedHeight :
        /\ arg_n' = n
        /\ arg_fh' = fh
        /\ rest_out' = n
        /\ stack' = <<BuildFrame(n, fh)>>
    /\ phase' = "build"
    /\ leaf_log' = <<>>
    /\ heap_before' = heap
    /\ fail_pc' = ""
    /\ fail_depth' = 0
    /\ UNCHANGED <<F, heap, double_destroy, exc, result, colVars, inrVars>>

Running == phase = "build" /\ ~exc /\ stack # <<>>

\* ref_type node = handler.create_leaf(leaf_size); size_t height = 1;
CreateLeaf ==
    /\ Running /\ Top.pc = "create_leaf"
    /\ heap' = Alloc(heap, FreshRef(heap), LeafNode(Top.leaf_size))
    /\ leaf_log' = Append(leaf_log, FreshRef(heap))
    /\ stack' = SetTop([Top EXCEPT !.node = FreshRef(heap), !.height = 1, !.pc = "loop"])
    /\ UNCHANGED <<F, double_destroy, phase, exc, arg_n, arg_fh, rest_out, result,
                   heap_before, fail_pc, fail_depth, colVars, inrVars>>

\* *rest_size_ptr = rest_size; return node;
BuildReturn ==
    /\ Running /\ Top.pc = "loop"
    /\ ReturnCond(Top.fixed_height, Top.height, Top.rest_size)
    /\ IF Len(stack) = 1
       THEN /\ rest_out' = Top.rest_size
            /\ result' = Top.node
            /\ stack' = <<>>
            /\ phase' = "returned"
       ELSE /\ stack' = [Pop EXCEPT ![Len(stack) - 1] =
                            [@ EXCEPT !.rest_size = Top.rest_size,
                                      !.child = Top.node,
                                      !.pc = "add_child"]]
            /\ UNCHANGED <<rest_out, result, phase>>
    /\ UNCHANGED <<F, heap, double_destroy, exc, arg_n, arg_fh, leaf_log,
                   heap_before, fail_pc, fail_depth, colVars, inrVars>>

\* the loop goes on: Array new_inner_node(alloc);
BuildContinue ==
    /\ Running /\ Top.pc = "loop"
    /\ ~ReturnCond(Top.fixed_height, Top.height, Top.rest_size)
    /\ stack' = SetTop([Top EXCEPT !.pc = "create_inner"])
    /\ UNCHANGED <<F, heap, double_destroy, phase, exc, arg_n, arg_fh,
                   rest_out, result, leaf_log, heap_before, fail_pc, fail_depth, colVars, inrVars>>

\* new_inner_node.create(Array::type_InnerBptreeNode);
CreateInner ==
    /\ Running /\ Top.pc = "create_inner"
    /\ heap' = Alloc(heap, FreshRef(heap), InnerNode)
    /\ stack' = SetTop([Top EXCEPT !.new_inner_node = FreshRef(heap), !.pc = "add_epc"])
    /\ UNCHANGED <<F, double_destroy, phase, exc, arg_n, arg_fh, rest_out, result,
                   leaf_log, heap_before, fail_pc, fail_depth, colVars, inrVars>>

\* int_fast64_t v = elems_per_child; new_inner_node.add(1 + 2 * v);
AddElemsPerChild ==
    /\ Running /\ Top.pc = "add_epc"
    /\ heap' = Add(heap, Top.new_inner_node, Inline(Top.elems_per_child))
    /\ stack' = SetTop([Top EXCEPT !.pc = "add_node"])
    /\ UNCHANGED <<F, double_destroy, phase, exc, arg_n, arg_fh, rest_out,
                   result, leaf_log, heap_before, fail_pc, fail_depth,
                   colVars, inrVars>>

\* v = from_ref(node); new_inner_node.add(v); node = 0; size_t num_children = 1;
AddNode ==
    /\ Running /\ Top.pc = "add_node"
    /\ heap' = Add(heap, Top.new_inner_node, from_ref(Top.node))
    /\ stack' = SetTop([Top EXCEPT !.node = ClearedNode(Top.node),
                                   !.num_children = 1,
                                   !.pc = "while"])
    /\ UNCHANGED <<F, double_destroy, phase, exc, arg_n, arg_fh, rest_out,
                   result, leaf_log, heap_before, fail_pc, fail_depth,
                   colVars, inrVars>>

\* ref_type child = build(&rest_size, height, alloc, handler);
CallChild ==
    /\ Running /\ Top.pc = "while"
    /\ WhileCond(Top.rest_size, Top.num_children)
    /\ stack' = Append(SetTop([Top EXCEPT !.pc = "call"]),
                       BuildFrame(Top.rest_size, Top.height))
    /\ UNCHANGED <<F, heap, double_destroy, phase, exc, arg_n, arg_fh,
                   rest_out, result, leaf_log, heap_before, fail_pc, fail_depth, colVars, inrVars>>

\* int_fast64_t w = from_ref(child); new_inner_node.add(w); ++num_children;
AddChild ==
    /\ Running /\ Top.pc = "add_child"
    /\ heap' = Add(heap, Top.new_inner_node, from_ref(Top.child))
    /\ stack' = SetTop([Top EXCEPT !.num_children = @ + 1, !.pc = "while"])
    /\ UNCHANGED <<F, double_destroy, phase, exc, arg_n, arg_fh, rest_out,
                   result, leaf_log, heap_before, fail_pc, fail_depth,
                   colVars, inrVars>>

\* the while loop is left
EndChildren ==
    /\ Running /\ Top.pc = "while"
    /\ ~WhileCond(Top.rest_size, Top.num_children)
    /\ stack' = SetTop([Top EXCEPT !.pc = "add_total"])
    /\ UNCHANGED <<F, heap, double_destroy, phase, exc, arg_n, arg_fh,
                   rest_out, result, leaf_log, heap_before, fail_pc, fail_depth, colVars, inrVars>>

\* v = orig_rest_size - rest_size; new_inner_node.add(1 + 2 * v);
\* node = new_inner_node.get_ref(); ++height; elems_per_child *= REALM_MAX_BPNODE_SIZE;
AddTotal ==
    /\ Running /\ Top.pc = "add_total"
    /\ heap' = Add(heap, Top.new_inner_node,
                   Inline(TotalElems(Top.orig_rest_size, Top.rest_size)))
    /\ stack' = SetTop([Top EXCEPT !.node = Top.new_inner_node,
                                   !.height = @ + 1,
                                   !.elems_per_child = NextElemsPerChild(@),
                                   !.pc = "loop"])
    /\ UNCHANGED <<F, double_destroy, phase, exc, arg_n, arg_fh, rest_out,
                   result, leaf_log, heap_before, fail_pc, fail_depth,
                   colVars, inrVars>>

\* The steps of build() that the source marks "Throws"
ThrowingPcs == {"create_leaf", "create_inner", "add_epc", "add_node", "add_child", "add_total"}

\* One of them raises instead of completing
BuildThrow ==
    /\ Running /\ Top.pc \in ThrowingPcs
    /\ exc' = TRUE
    /\ fail_pc' = Top.pc
    /\ fail_depth' = Len(stack)
    /\ UNCHANGED <<F, heap, double_destroy, phase, stack, arg_n, arg_fh,
                   rest_out, result, leaf_log, heap_before, colVars, inrVars>>

\* try-regions of build(), by the position the frame is at
InChildTry(pc) == pc = "add_child"
InInnerTry(pc) == pc \in {"add_epc", "add_node", "call", "add_child", "add_total"}
InOuterTry(pc) == pc # "create_leaf"

\* catch (...) { Array::destroy_deep(child, alloc); throw; }
CatchChild(st, f) == DestroyDeep(st, f.child)
\* catch (...) { new_inner_node.destroy_deep(); throw; }
CatchInner(st, f) == DestroyDeep(st, f.new_inner_node)
\* catch (...) { if (node != 0) Array::destroy_deep(node, alloc); throw; }
CatchOuter(st, f) == IF f.node # 0 THEN DestroyDeep(st, f.node) ELSE st

\* The exception leaves the top frame through its handlers
Unwind ==
    /\ phase = "build" /\ exc /\ stack # <<>>
    /\ LET f == Top
           s0 == [heap |-> heap, bad |-> double_destroy]
           s1 == IF InChildTry(f.pc) THEN CatchChild(s0, f) ELSE s0
           s2 == IF InInnerTry(f.pc) THEN CatchInner(s1, f) ELSE s1
           s3 == IF InOuterTry(f.pc) THEN CatchOuter(s2, f) ELSE s2
       IN /\ heap' = s3.heap
          /\ double_destroy' = s3.bad
    /\ stack' = Pop
    /\ phase' = IF Len(stack) = 1 THEN "threw" ELSE "build"
    /\ UNCHANGED <<F, exc, arg_n, arg_fh, rest_out, result, leaf_log,
                   heap_before, fail_pc, fail_depth, colVars, inrVars>>

\* The caller has seen the error; nothing of the call is left
BuildFailed ==
    /\ phase = "threw"
    /\ phase' = "idle"
    /\ exc' = FALSE
    /\ arg_n' = 0 /\ arg_fh' = 0 /\ rest_out' = 0
    /\ leaf_log' = <<>>
    /\ heap_before' = <<>>
    /\ fail_pc' = "" /\ fail_depth' = 0
    /\ UNCHANGED <<F, heap, double_destroy, stack, result, colVars, inrVars>>

\* The caller makes the returned tree the root of its column: the accessor
\* is attached to the ref and the parent's slot holds it.
Attach ==
    /\ phase = "returned"
    /\ phase' = "idle"
    /\ m_array' = result
    /\ parent_slot' = result
    /\ result' = 0
    /\ arg_n' = 0 /\ arg_fh' = 0 /\ rest_out' = 0
    /\ leaf_log' = <<>>
    /\ heap_before' = <<>>
    /\ UNCHANGED <<F, heap, double_destroy, stack, exc, fail_pc, fail_depth, inrVars>>

\* ------------------------------------------------------- reading a tree
Last(s) == s[Len(s)]

\* the child refs of an inner node: every slot but the first and the last
Kids(h, r) == SubSeq(h[r].slots, 2, Len(h[r].slots) - 1)

RECURSIVE LeafRefs(_, _)
RECURSIVE LeafRefsOfKids(_, _, _)
LeafRefsOfKids(h, kids, i) ==
    IF i > Len(kids) THEN <<>>
    ELSE LeafRefs(h, kids[i]) \o LeafRefsOfKids(h, kids, i + 1)
\* the leaves of the tree at r, left to right
LeafRefs(h, r) ==
    IF h[r].type = "inner" THEN LeafRefsOfKids(h, Kids(h, r), 1) ELSE <<r>>

RECURSIVE SumSizes(_, _, _)
SumSizes(h, refs, i) ==
    IF i > Len(refs) THEN 0 ELSE h[refs[i]].size + SumSizes(h, refs, i + 1)

\* number of elements held in the tree at r
Elems(h, r) == SumSizes(h, LeafRefs(h, r), 1)

RECURSIVE Height(_, _)
Height(h, r) ==
    IF h[r].type = "inner" /\ Len(Kids(h, r)) > 0 THEN 1 + Height(h, Kids(h, r)[1])
    ELSE 1

RECURSIVE TreeRefs(_, _)
\* every node of the tree at r (child slots only)
TreeRefs(h, r) ==
    IF h[r].type = "inner"
    THEN {r} \cup UNION {TreeRefs(h, Kids(h, r)[i]) : i \in 1..Len(Kids(h, r))}
    ELSE {r}

InnerRefs(h, r) == {x \in TreeRefs(h, r) : h[x].type = "inner"}

\* smallest h with F^h >= n
CeilLog(n) == CHOOSE e \in 1..(n + 1) : Pow(F, e) >= n /\ (e = 1 \/ Pow(F, e - 1) < n)

\* ------------------------------- ColumnBaseSimple::introduce_new_root
\* The sibling a split hands to introduce_new_root: a node of the height and
\* the form of the root (both leaves, or both inner nodes, compact or
\* general alike), holding one element.
RECURSIVE MakeSibling(_, _)
MakeSibling(h, r) ==
    IF h[r].type # "inner"
    THEN [heap |-> Alloc(h, FreshRef(h), LeafNode(1)), ref |-> FreshRef(h)]
    ELSE LET sub == MakeSibling(h, Kids(h, r)[1])
             h1 == sub.heap
         IN IF IsInlineSlot(h[r].slots[1])
            THEN [heap |-> Alloc(h1, FreshRef(h1),
                                 [InnerNode EXCEPT !.slots =
                                     <<h[r].slots[1], from_ref(sub.ref), Inline(1)>>]),
                  ref |-> FreshRef(h1)]
            ELSE LET offs == FreshRef(h1)
                     h2 == Alloc(h1, offs, NormalNode)
                 IN [heap |-> Alloc(h2, FreshRef(h2),
                                    [InnerNode EXCEPT !.slots =
                                        <<from_ref(offs), from_ref(sub.ref), Inline(1)>>]),
                     ref |-> FreshRef(h2)]

\* variants of compact_form with one conjunct lost
CompactFormInnerOnly(is_append, is_inner, first_slot) ==
    is_append /\ is_inner /\ first_slot % 2 # 0
CompactFormAnyInsert(is_append, is_inner, first_slot) ==
    ~is_inner \/ first_slot % 2 # 0
CompactFormAppendOnly(is_append, is_inner, first_slot) == is_append

\* bool compact_form =
\*     is_append && (!orig_root->is_inner_bptree_node() || orig_root->get(0) % 2 != 0);
CompactForm(is_append, is_inner, first_slot) ==
    is_append /\ (~is_inner \/ first_slot % 2 # 0)

NoCall == [orig_root |-> 0, new_root |-> 0, new_offsets |-> 0, new_sibling_ref |-> 0,
           split_offset |-> 0, split_size |-> 0, is_append |-> FALSE,
           compact_form |-> FALSE]

InInr(pc) == phase = "inr" /\ ipc = pc

\* introduce_new_root(new_sibling_ref, state, is_append) is entered;
\* Array* orig_root = get_root_array();
IntroduceCall ==
    /\ phase = "idle" /\ m_array # 0 /\ grows < MaxGrow
    /\ \E app \in BOOLEAN, so \in 1..MaxSplit :
         \E ss \in (so + 1)..(MaxSplit + 1) :
            LET sib == MakeSibling(heap, m_array)
            IN /\ heap' = sib.heap
               /\ heap_before' = sib.heap
               /\ inr' = [NoCall EXCEPT !.orig_root = m_array,
                                        !.new_sibling_ref = sib.ref,
                                        !.split_offset = so,
                                        !.split_size = ss,
                                        !.is_append = app]
    /\ phase' = "inr"
    /\ ipc' = "create"
    /\ grows' = grows + 1
    /\ fail_pc' = ""
    /\ UNCHANGED <<F, double_destroy, stack, exc, arg_n, arg_fh, rest_out, result,
                   leaf_log, fail_depth, colVars>>

\* std::unique_ptr<Array> new_root(new BpTreeNode(alloc));
\* new_root->create(Array::type_InnerBptreeNode);
NewRootCreate ==
    /\ InInr("create")
    /\ heap' = Alloc(heap, FreshRef(heap), InnerNode)
    /\ inr' = [inr EXCEPT !.new_root = FreshRef(heap)]
    /\ ipc' = "update_parent"
    /\ UNCHANGED <<F, double_destroy, phase, stack, exc, arg_n, arg_fh, rest_out,
                   result, leaf_log, heap_before, fail_pc, fail_depth, colVars, grows>>

\* new_root->set_parent(orig_root->get_parent(), orig_root->get_ndx_in_parent());
\* new_root->update_parent();
NewRootUpdateParent ==
    /\ InInr("update_parent")
    /\ parent_slot' = from_ref(inr.new_root)
    /\ ipc' = "compact_form"
    /\ UNCHANGED <<F, heap, double_destroy, phase, stack, exc, arg_n, arg_fh, rest_out,
                   result, leaf_log, heap_before, fail_pc, fail_depth, m_array, inr,
                   grows>>

\* bool compact_form = ...
ComputeCompactForm ==
    /\ InInr("compact_form")
    /\ inr' = [inr EXCEPT !.compact_form =
                  CompactForm(inr.is_append,
                              heap[inr.orig_root].type = "inner",
                              IF heap[inr.orig_root].type = "inner"
                              THEN heap[inr.orig_root].slots[1] ELSE 0)]
    /\ ipc' = "assert"
    /\ UNCHANGED <<F, heap, double_destroy, phase, stack, exc, arg_n, arg_fh, rest_out,
                   result, leaf_log, heap_before, fail_pc, fail_depth, colVars, grows>>

\* REALM_ASSERT(!compact_form || is_append); if (compact_form) ... else ...
AssertForm ==
    /\ InInr("assert")
    /\ IF ~inr.compact_form \/ inr.is_append
       THEN /\ ipc' = IF inr.compact_form THEN "add_first" ELSE "offsets_create"
            /\ phase' = phase
       ELSE /\ ipc' = "assert"
            /\ phase' = "aborted"
    /\ UNCHANGED <<F, heap, double_destroy, stack, exc, arg_n, arg_fh, rest_out,
                   result, leaf_log, heap_before, fail_pc, fail_depth, colVars, inr,
                   grows>>

\* int_fast64_t v = to_int64(state.m_split_offset); new_root->add(1 + 2 * v);
AddFirstCompact ==
    /\ InInr("add_first")
    /\ heap' = Add(heap, inr.new_root, Inline(inr.split_offset))
    /\ ipc' = "add_orig"
    /\ UNCHANGED <<F, double_destroy, phase, stack, exc, arg_n, arg_fh, rest_out,
                   result, leaf_log, heap_before, fail_pc, fail_depth, colVars, inr,
                   grows>>

\* Array new_offsets(alloc); new_offsets.create(Array::type_Normal);
OffsetsCreate ==
    /\ InInr("offsets_create")
    /\ heap' = Alloc(heap, FreshRef(heap), NormalNode)
    /\ inr' = [inr EXCEPT !.new_offsets = FreshRef(heap)]
    /\ ipc' = "offsets_add"
    /\ UNCHANGED <<F, double_destroy, phase, stack, exc, arg_n, arg_fh, rest_out,
                   result, leaf_log, heap_before, fail_pc, fail_depth, colVars, grows>>

\* new_offsets.add(to_int64(state.m_split_offset));
OffsetsAdd ==
    /\ InInr("offsets_add")
    /\ heap' = Add(heap, inr.new_offsets, inr.split_offset)
    /\ ipc' = "add_offsets_ref"
    /\ UNCHANGED <<F, double_destroy, phase, stack, exc, arg_n, arg_fh, rest_out,
                   result, leaf_log, heap_before, fail_pc, fail_depth, colVars, inr,
                   grows>>

\* new_root->add(from_ref(new_offsets.get_ref()));
AddOffsetsRef ==
    /\ InInr("add_offsets_ref")
    /\ heap' = Add(heap, inr.new_root, from_ref(inr.new_offsets))
    /\ ipc' = "add_orig"
    /\ UNCHANGED <<F, double_destroy, phase, stack, exc, arg_n, arg_fh, rest_out,
                   result, leaf_log, heap_before, fail_pc, fail_depth, colVars, inr,
                   grows>>

\* new_root->add(from_ref(orig_root->get_ref()));
AddOrigRoot ==
    /\ InInr("add_orig")
    /\ heap' = Add(heap, inr.new_root, from_ref(inr.orig_root))
    /\ ipc' = "add_sibling"
    /\ UNCHANGED <<F, double_destroy, phase, stack, exc, arg_n, arg_fh, rest_out,
                   result, leaf_log, heap_before, fail_pc, fail_depth, colVars, inr,
                   grows>>

\* new_root->add(from_ref(new_sibling_ref));
AddSibling ==
    /\ InInr("add_sibling")
    /\ heap' = Add(heap, inr.new_root, from_ref(inr.new_sibling_ref))
    /\ ipc' = "add_size"
    /\ UNCHANGED <<F, double_destroy, phase, stack, exc, arg_n, arg_fh, rest_out,
                   result, leaf_log, heap_before, fail_pc, fail_depth, colVars, inr,
                   grows>>

\* int_fast64_t v = to_int64(state.m_split_size); new_root->add(1 + 2 * v);
AddSplitSize ==
    /\ InInr("add_size")
    /\ heap' = Add(heap, inr.new_root, Inline(inr.split_size))
    /\ ipc' = "replace"
    /\ UNCHANGED <<F, double_destroy, phase, stack, exc, arg_n, arg_fh, rest_out,
                   result, leaf_log, heap_before, fail_pc, fail_depth, colVars, inr,
                   grows>>

\* replace_root_array(std::move(new_root)):
\*   leaf->set_parent(parent, ndx_in_parent); leaf->update_parent();
\*   m_array = std::move(leaf);
ReplaceRootArray ==
    /\ InInr("replace")
    /\ parent_slot' = from_ref(inr.new_root)
    /\ m_array' = inr.new_root
    /\ phase' = "inr_done"
    /\ ipc' = ""
    /\ UNCHANGED <<F, heap, double_destroy, stack, exc, arg_n, arg_fh, rest_out,
                   result, leaf_log, heap_before, fail_pc, fail_depth, inr, grows>>

\* The steps of introduce_new_root and replace_root_array marked "Throws"
InrThrowingPcs == {"create", "update_parent", "add_first", "offsets_create",
                   "offsets_add", "add_offsets_ref", "add_orig", "add_sibling",
                   "add_size", "replace"}

\* One of them raises.  Neither function has a handler: the accessors
\* new_root and new_offsets go out of scope, which frees no node (an Array
\* accessor does not own its memory: build() has to destroy_deep its own
\* stack accessor new_inner_node in a catch block), and the error reaches
\* the caller.
IntroduceThrow ==
    /\ phase = "inr" /\ ipc \in InrThrowingPcs
    /\ fail_pc' = ipc
    /\ phase' = "inr_threw"
    /\ UNCHANGED <<F, heap, double_destroy, stack, exc, arg_n, arg_fh, rest_out,
                   result, leaf_log, heap_before, fail_depth, colVars, ipc, inr,
                   grows>>

\* introduce_new_root has returned.  (After an error the caller gives the
\* column up: "inr_threw" is final.)
IntroduceEnd ==
    /\ phase = "inr_done"
    /\ phase' = "idle"
    /\ ipc' = ""
    /\ inr' = NoCall
    /\ heap_before' = <<>>
    /\ UNCHANGED <<F, heap, double_destroy, stack, exc, arg_n, arg_fh, rest_out,
                   result, leaf_log, fail_pc, fail_depth, colVars, grows>>

\* ------------------------------------------------------------------ spec
\* A node of some other column may already live in the allocator
ForeignHeaps == {<<>>, Alloc(<<>>, 2, LeafNode(1))}

Init ==
    /\ F \in 2..MaxFanout
    /\ heap \in ForeignHeaps
    /\ double_destroy = FALSE
    /\ phase = "idle"
    /\ stack = <<>>
    /\ exc = FALSE
    /\ arg_n = 0
    /\ arg_fh = 0
    /\ rest_out = 0
    /\ result = 0
    /\ leaf_log = <<>>
    /\ heap_before = <<>>
    /\ fail_pc = ""
    /\ fail_depth = 0
    /\ m_array = 0
    /\ parent_slot = 0
    /\ ipc = ""
    /\ inr = NoCall
    /\ grows = 0

Next ==
    \/ BuildCall
    \/ CreateLeaf
    \/ BuildReturn
    \/ BuildContinue
    \/ CreateInner
    \/ AddElemsPerChild
    \/ AddNode
    \/ CallChild
    \/ AddChild
    \/ EndChildren
    \/ AddTotal
    \/ BuildThrow
    \/ Unwind
    \/ BuildFailed
    \/ Attach
    \/ IntroduceCall
    \/ NewRootCreate
    \/ NewRootUpdateParent
    \/ ComputeCompactForm
    \/ AssertForm
    \/ AddFirstCompact
    \/ OffsetsCreate
    \/ OffsetsAdd
    \/ AddOffsetsRef
    \/ AddOrigRoot
    \/ AddSibling
    \/ AddSplitSize
    \/ ReplaceRootArray
    \/ IntroduceThrow
    \/ IntroduceEnd

Spec == Init /\ [][Next]_vars

\* ---------------------------------------------------------------- claims

\* C1: when a throwing step of build() fails, at any depth, then once the
\* error has left the outermost call the allocator holds exactly the nodes it
\* held before the call, and no node has been destroyed twice.
C1_CleanupOnFailure ==
    phase = "threw" => (heap = heap_before /\ ~double_destroy)

C1_Witness ==
    /\ phase = "threw" /\ fail_depth >= 2 /\ fail_pc = "add_total"
    /\ Len(leaf_log) >= 3 /\ DOMAIN heap_before # {} /\ heap = heap_before

\* C2: a successful build(n, 0) returns a tree whose leaves, left to right,
\* are the leaves create_leaf returned, in call order, each of size 1..F,
\* summing to n; an inner root ends with the slot 1 + 2*n; n = 5 with F = 4
\* gives an inner root over leaves of sizes 4 and 1.
C2_BuildTotals ==
    (phase = "returned" /\ arg_fh = 0) =>
        /\ LeafRefs(heap, result) = leaf_log
        /\ \A i \in 1..Len(leaf_log) :
              heap[leaf_log[i]].type = "leaf" /\ heap[leaf_log[i]].size \in 1..F
        /\ Elems(heap, result) = arg_n
        /\ heap[result].type = "inner" => Last(heap[result].slots) = 1 + 2 * arg_n
        /\ (arg_n = 5 /\ F = 4) =>
              /\ heap[result].type = "inner"
              /\ Len(Kids(heap, result)) = 2
              /\ heap[Kids(heap, result)[1]] = LeafNode(4)
              /\ heap[Kids(heap, result)[2]] = LeafNode(1)
              /\ Last(heap[result].slots) = 11

C2_Witness ==
    /\ phase = "returned" /\ arg_fh = 0 /\ arg_n = 5 /\ F = 4
    /\ heap[result].type = "inner" /\ Len(leaf_log) = 2

\* C3: the tree of a successful build(n, 0) has height 1 when n <= F and
\* otherwise the smallest h with F^h >= n; every inner node has 1..F
\* children, all of one height.
C3_HeightDeterminism ==
    (phase = "returned" /\ arg_fh = 0) =>
        /\ Height(heap, result) = (IF arg_n <= F THEN 1 ELSE CeilLog(arg_n))
        /\ \A x \in InnerRefs(heap, result) :
              /\ Len(Kids(heap, x)) \in 1..F
              /\ \A i \in 1..Len(Kids(heap, x)) :
                    Height(heap, Kids(heap, x)[i]) = Height(heap, x) - 1

C3_Witness ==
    /\ phase = "returned" /\ arg_fh = 0 /\ arg_n > F * F
    /\ Height(heap, result) = 3

\* C7: in every inner node of a built tree the first slot is inline, 1 + 2*k,
\* and child i holds min((i+1)*k, t) - i*k elements, t being the total slot;
\* the last child holds 1..k and k = F^(height of the children).
C7_CompactArithmetic ==
    phase = "returned" =>
        \A x \in InnerRefs(heap, result) :
            LET k == (heap[x].slots[1] - 1) \div 2
                t == (Last(heap[x].slots) - 1) \div 2
                kids == Kids(heap, x)
            IN /\ IsInlineSlot(heap[x].slots[1])
               /\ IsInlineSlot(Last(heap[x].slots))
               /\ \A i \in 0..(Len(kids) - 1) :
                     Elems(heap, kids[i + 1]) = Min((i + 1) * k, t) - i * k
               /\ Elems(heap, kids[Len(kids)]) \in 1..k
               /\ k = Pow(F, Height(heap, kids[1]))

C7_Witness ==
    /\ phase = "returned" /\ Height(heap, result) = 3
    /\ Len(Kids(heap, result)) = 2
    /\ Elems(heap, Kids(heap, result)[2]) < Elems(heap, Kids(heap, result)[1])

\* C9: a successful build writes back n minus the elements it placed: 0 when
\* fixed_height = 0; with fixed_height = h >= 1 the tree has height h and the
\* remainder is n - min(n, F^h).
C9_Remainder ==
    phase = "returned" =>
        /\ rest_out = arg_n - Elems(heap, result)
        /\ arg_fh = 0 => rest_out = 0
        /\ arg_fh >= 1 =>
              /\ Height(heap, result) = arg_fh
              /\ rest_out = arg_n - Min(arg_n, Pow(F, arg_fh))

C9_Witness ==
    /\ phase = "returned" /\ arg_fh = 2 /\ arg_n = 1
    /\ Height(heap, result) = 2 /\ rest_out = 0

\* C4: when a throwing step of introduce_new_root fails, the tree is as it
\* was before the call: the parent's slot holds the original root's ref, the
\* column's accessor is the original root, and every node the call allocated
\* has been destroyed.
C4_GrowthFailureLeavesTreeIntact ==
    phase = "inr_threw" =>
        /\ parent_slot = from_ref(inr.orig_root)
        /\ m_array = inr.orig_root
        /\ DOMAIN heap = DOMAIN heap_before

\* the new root is fully built: first slot, both child refs, total slot
NewRootComplete == inr.new_root \in DOMAIN heap /\ Len(heap[inr.new_root].slots) = 4

\* C5: in every intermediate state of introduce_new_root the parent's slot
\* and the column's accessor denote the same node, which is the original
\* root or the fully built new root.
C5_RootReplacementAtomic ==
    phase \in {"inr", "inr_done", "inr_threw"} =>
        /\ parent_slot = from_ref(m_array)
        /\ m_array = inr.orig_root \/ (m_array = inr.new_root /\ NewRootComplete)

\* C6: a successful introduce_new_root installs a new inner node of four
\* slots: first slot, ref of the original root, ref of new_sibling,
\* 1 + 2*split_size.  The first slot is 1 + 2*split_offset exactly when
\* is_append holds and the original root is a leaf or has an odd first slot;
\* otherwise it is the ref of a freshly allocated array holding just
\* split_offset.  The original root and the sibling are not modified.
C6_NewRootLayout ==
    phase = "inr_done" =>
        LET slots == heap[m_array].slots
            orig == heap_before[inr.orig_root]
            compact == inr.is_append /\
                          (orig.type = "leaf" \/ orig.slots[1] % 2 = 1)
        IN /\ m_array = inr.new_root
           /\ m_array \notin DOMAIN heap_before
           /\ heap[m_array].type = "inner"
           /\ Len(slots) = 4
           /\ slots[2] = inr.orig_root
           /\ slots[3] = inr.new_sibling_ref
           /\ slots[4] = 1 + 2 * inr.split_size
           /\ compact => slots[1] = 1 + 2 * inr.split_offset
           /\ ~compact =>
                 /\ slots[1] % 2 = 0
                 /\ slots[1] \in DOMAIN heap
                 /\ slots[1] \notin DOMAIN heap_before
                 /\ heap[slots[1]].slots = <<inr.split_offset>>
           /\ heap[inr.orig_root] = orig
           /\ heap[inr.new_sibling_ref] = heap_before[inr.new_sibling_ref]
           /\ DOMAIN heap_before \subseteq DOMAIN heap

C6_Witness ==
    /\ phase = "inr_done" /\ inr.is_append
    /\ heap[inr.orig_root].type = "leaf"
    /\ heap[m_array].slots[1] = 1 + 2 * inr.split_offset

C10_FormUniformity ==
    (m_array # 0 /\ phase \in {"idle", "inr_done"}) =>
        \A x \in InnerRefs(heap, m_array) :
            IsInlineSlot(heap[x].slots[1]) =>
                \A i \in 1..Len(Kids(heap, x)) :
                    LET c == heap[Kids(heap, x)[i]]
                    IN c.type = "leaf" \/ (c.type = "inner" /\ IsInlineSlot(c.slots[1]))

C10_Witness ==
    /\ phase = "inr_done" /\ inr.is_append /\ grows = 2
    /\ heap[inr.orig_root].type = "inner"
    /\ IsRefSlot(heap[inr.orig_root].slots[1])
    /\ IsRefSlot(heap[m_array].slots[1])

====
